---- MODULE Spec2Model ----
(***************************************************************************)
(* State-machine model of the SNMP booster polling engine:                 *)
(*   - SNMPWorker.run / stop_worker   (libs/snmpworker.py)                 *)
(*   - callback_get                   (libs/snmpworker.py)                 *)
(*   - callback_mapping_next          (libs/snmpworker.py)                 *)
(*   - DBClient                       (libs/redisclient.py)                *)
(* Each component has its own state variables and its own specification;   *)
(* the variables of the other components stay at their initial value.      *)
(***************************************************************************)
EXTENDS Integers, Sequences, FiniteSets, TLC

VARIABLES
    \* ---- SNMPWorker (thread + task queue) ----
    pc,               \* position of the worker thread in run()
    must_run,         \* self.must_run
    task_prepared,    \* local counter of run()
    mapping_queue,    \* self.mapping_queue: FIFO of tasks
    unfinished_tasks, \* Queue's put()/task_done() counter
    nextId,           \* number of tasks enqueued so far (task identity)
    submitted,        \* history: calls made on self.cmdgen, in order
    removed,          \* history: ids of the tasks taken from the queue
    dispatcher_runs,  \* history: runDispatcher() calls of the current cycle
    stop_returned,    \* history: stop_worker() has returned
    cycle_after_stop, \* history: a cycle began after stop_worker() returned
    reported,         \* history: ids of the tasks a log line or a traceback tells of
    cycle_submitted,  \* history: transport calls made in the current cycle
    \* ---- callback_get (result correlator) ----
    results,          \* cbCtx[0]: the accumulator, OID -> entry
    service_results,  \* the service_result (cbCtx[1]) of each service
    result_queue,     \* cbCtx[2]: the items put, oldest first
    now,              \* the clock time.time() reads
    last_cb,          \* history: the last callback_get call, with the state before it
    \* ---- callback_mapping_next (mapping walker) ----
    mapping_oid,      \* cbCtx[0]: the root OID of the table
    map_result,       \* cbCtx[1]: {'data': name -> instance, 'finished': bool}
    agent_rows,       \* what the agent answers to successive GetNext requests
    table_rows,       \* how many of agent_rows lie in the table
    rounds,           \* GetNext rounds answered so far
    walk_ret,         \* what the last callback returned (True: ask again)
    last_row,         \* history: the row of the last round
    last_call,        \* history: the last callback_mapping_next call, with the state before it
    \* ---- DBClient (cache store) ----
    db,               \* the Redis store behind db_conn: key -> value
    written,          \* history: per service key, the (path, value) writes still in force
    scenario,         \* history: how far the calls so far follow scenarios 2 and 3
    only_init,        \* history: every write so far was an update_service_init that succeeded
    last_get,         \* history: the get_services call, when it was the last call
    \* ---- concurrent update_service calls ----
    writers,          \* per writer: position in update_service, its data, the old_dict it read
    started,          \* history: update_service calls begun by the writers
    raced             \* history: a call read the record while another call was under way

workerVars == <<pc, must_run, task_prepared, mapping_queue, unfinished_tasks,
                nextId, submitted, removed, dispatcher_runs, stop_returned,
                cycle_after_stop, reported, cycle_submitted>>

corrVars == <<results, service_results, result_queue, now, last_cb>>

mapVars == <<mapping_oid, map_result, agent_rows, table_rows, rounds, walk_ret,
             last_row, last_call>>

cacheVars == <<db, written, scenario, only_init, last_get>>

raceVars == <<writers, started, raced>>

vars == <<workerVars, corrVars, mapVars, cacheVars, raceVars>>

\* What the actions of one component leave alone.
nonWorkerVars == <<corrVars, mapVars, cacheVars, raceVars>>
nonCorrVars == <<workerVars, mapVars, cacheVars, raceVars>>
nonMapVars == <<workerVars, corrVars, cacheVars, raceVars>>
nonCacheVars == <<workerVars, corrVars, mapVars, raceVars>>
nonStoreVars == <<workerVars, corrVars, mapVars>>

(***************************************************************************)
(* Bounds of the model.                                                    *)
(***************************************************************************)
MaxTasks == 3
\* callback_get calls in one behaviour.
MaxCallbacks == 3
\* Rows of the walked table.
MaxRows == 2
\* callback_mapping_next calls delivered to one mapping state.
MaxDeliveries == 3
\* update_service calls begun by the concurrent writers.
MaxWrites == 3

\* Python's None where a number (None) or a string (NoneStr) is expected, the
\* absence of a transport call, and a key that a dict does not hold.
None == 0 - 1
NoneStr == "<None>"
NoCall == "<no call>"
Missing == "<missing>"

(***************************************************************************)
(* SNMPWorker                                                              *)
(***************************************************************************)
\* The number of tasks one cycle may take: "task_prepared <= 1" lets the
\* inner loop run while the counter is 0 or 1.
BurstLast == 1

\* snmp_task['type'] values: the three kinds run() knows, one it does not,
\* and a task dict without the key.
TaskTypes == {"get", "next", "bulk", "walk", Missing}
\* snmp_task['data']: every keyword the transport call needs, some of them
\* missing, or no 'data' key at all.
DataForms == {"complete", "incomplete", Missing}

TaskShapes == [type : TaskTypes, data : DataForms]
WellFormed == [type : {"get", "next", "bulk"}, data : {"complete"}]

\* TransportOp with the 'next' branch calling the 'get' operation.
TransportOp_NextAsGet(type) ==
    CASE type = "bulk" -> "asyncBulkCmd"
      [] type = "next" -> "asyncGetCmd"
      [] type = "get"  -> "asyncGetCmd"
      [] OTHER         -> NoCall

\* The transport operation run() calls for a task type (lines 23-45);
\* NoCall when no branch of the if/elif chain matches.
TransportOp(type) ==
    CASE type = "bulk" -> "asyncBulkCmd"
      [] type = "next" -> "asyncNextCmd"
      [] type = "get"  -> "asyncGetCmd"
      [] OTHER         -> NoCall

\* What one pass of the inner loop body does with the task it took:
\*   "KeyError"  snmp_task['type'] or snmp_task['data'] is absent
\*   "TypeError" the transport call lacks a required argument
\*   "submit"    the transport operation was called
\*   "skip"      no branch matched; nothing was called
Outcome(task) ==
    IF task.type = Missing THEN "KeyError"
    ELSE IF TransportOp(task.type) = NoCall THEN "skip"
    ELSE IF task.data = Missing THEN "KeyError"
    ELSE IF task.data = "incomplete" THEN "TypeError"
    ELSE "submit"

WorkerInit ==
    /\ pc = "new"
    /\ must_run = FALSE
    /\ task_prepared = 0
    /\ mapping_queue = <<>>
    /\ unfinished_tasks = 0
    /\ nextId = 0
    /\ submitted = <<>>
    /\ removed = {}
    /\ dispatcher_runs = 0
    /\ stop_returned = FALSE
    /\ cycle_after_stop = FALSE
    /\ reported = {}
    /\ cycle_submitted = 0

\* A queue that hands out the task put last: put() at the head.
Put_AtHead(shape) ==
    /\ nextId < MaxTasks
    /\ nextId' = nextId + 1
    /\ mapping_queue' = <<[id |-> nextId + 1, task |-> shape]>> \o mapping_queue
    /\ unfinished_tasks' = unfinished_tasks + 1
    /\ UNCHANGED <<pc, must_run, task_prepared, submitted, removed,
                   dispatcher_runs, stop_returned, cycle_after_stop, reported,
                   cycle_submitted>>
    /\ UNCHANGED nonWorkerVars

\* Queue.put(task) by the scheduler: never blocks (unbounded queue).
Put(shape) ==
    /\ nextId < MaxTasks
    /\ nextId' = nextId + 1
    /\ mapping_queue' = Append(mapping_queue, [id |-> nextId + 1, task |-> shape])
    /\ unfinished_tasks' = unfinished_tasks + 1
    /\ UNCHANGED <<pc, must_run, task_prepared, submitted, removed,
                   dispatcher_runs, stop_returned, cycle_after_stop, reported,
                   cycle_submitted>>
    /\ UNCHANGED nonWorkerVars

Enqueue == \E shape \in TaskShapes : Put(shape)

EnqueueWellFormed == \E shape \in WellFormed : Put(shape)

\* Thread.start(): the thread exists, run() has not executed a statement.
Start ==
    /\ pc = "new"
    /\ pc' = "run"
    /\ UNCHANGED <<must_run, task_prepared, mapping_queue, unfinished_tasks,
                   nextId, submitted, removed, dispatcher_runs, stop_returned,
                   cycle_after_stop, reported, cycle_submitted>>
    /\ UNCHANGED nonWorkerVars

\* line 16: self.must_run = True
RunBegin ==
    /\ pc = "run"
    /\ must_run' = TRUE
    /\ pc' = "while"
    /\ UNCHANGED <<task_prepared, mapping_queue, unfinished_tasks, nextId,
                   submitted, removed, dispatcher_runs, stop_returned,
                   cycle_after_stop, reported, cycle_submitted>>
    /\ UNCHANGED nonWorkerVars

\* lines 17-18: while self.must_run: task_prepared = 0
LoopTest ==
    /\ pc = "while"
    /\ IF must_run
       THEN /\ pc' = "inner"
            /\ task_prepared' = 0
            /\ dispatcher_runs' = 0
            /\ cycle_submitted' = 0
            /\ cycle_after_stop' = (cycle_after_stop \/ stop_returned)
       ELSE /\ pc' = "done"
            /\ UNCHANGED <<task_prepared, dispatcher_runs, cycle_after_stop,
                           cycle_submitted>>
    /\ UNCHANGED <<must_run, mapping_queue, unfinished_tasks, nextId,
                   submitted, removed, stop_returned, reported>>
    /\ UNCHANGED nonWorkerVars

\* lines 20-52: one evaluation of the inner while condition and, when it
\* holds, one pass of its body.
InnerLoop ==
    /\ pc = "inner"
    /\ IF mapping_queue # <<>> /\ task_prepared <= BurstLast
       THEN LET head == Head(mapping_queue)
                out  == Outcome(head.task)
            IN  /\ task_prepared' = task_prepared + 1
                /\ mapping_queue' = Tail(mapping_queue)
                /\ removed' = removed \cup {head.id}
                /\ submitted' =
                      IF out = "submit"
                      THEN Append(submitted,
                                  [id |-> head.id, type |-> head.task.type,
                                   op |-> TransportOp(head.task.type)])
                      ELSE submitted
                /\ cycle_submitted' = IF out = "submit" THEN cycle_submitted + 1
                                                        ELSE cycle_submitted
                \* an exception leaves run(): the thread ends, task_done()
                \* is not reached; Thread prints the traceback to stderr.
                \* run() itself never calls logger.
                /\ pc' = IF out \in {"KeyError", "TypeError"} THEN out ELSE "inner"
                /\ reported' = IF out \in {"KeyError", "TypeError"}
                               THEN reported \cup {head.id}
                               ELSE reported
                /\ unfinished_tasks' =
                      IF out \in {"KeyError", "TypeError"}
                      THEN unfinished_tasks
                      ELSE unfinished_tasks - 1
       ELSE /\ pc' = "dispatch"
            /\ UNCHANGED <<task_prepared, mapping_queue, removed, submitted,
                           unfinished_tasks, reported, cycle_submitted>>
    /\ UNCHANGED <<must_run, nextId, dispatcher_runs, stop_returned,
                   cycle_after_stop>>
    /\ UNCHANGED nonWorkerVars

\* lines 54-55: if task_prepared > 0: ...runDispatcher()
RunDispatcher ==
    /\ pc = "dispatch"
    /\ dispatcher_runs' = IF task_prepared > 0 THEN dispatcher_runs + 1
                                               ELSE dispatcher_runs
    /\ pc' = "sleep"
    /\ UNCHANGED <<must_run, task_prepared, mapping_queue, unfinished_tasks,
                   nextId, submitted, removed, stop_returned, cycle_after_stop,
                   reported, cycle_submitted>>
    /\ UNCHANGED nonWorkerVars

\* line 56: time.sleep(0.5)
Sleep ==
    /\ pc = "sleep"
    /\ pc' = "while"
    /\ UNCHANGED <<must_run, task_prepared, mapping_queue, unfinished_tasks,
                   nextId, submitted, removed, dispatcher_runs, stop_returned,
                   cycle_after_stop, reported, cycle_submitted>>
    /\ UNCHANGED nonWorkerVars

\* lines 59-60, called by the owner of the thread once it was started.
stop_worker ==
    /\ pc # "new"
    /\ must_run' = FALSE
    /\ stop_returned' = TRUE
    /\ UNCHANGED <<pc, task_prepared, mapping_queue, unfinished_tasks, nextId,
                   submitted, removed, dispatcher_runs, cycle_after_stop,
                   reported, cycle_submitted>>
    /\ UNCHANGED nonWorkerVars

\* The steps of the worker thread.
WorkerStep == RunBegin \/ LoopTest \/ InnerLoop \/ RunDispatcher \/ Sleep

(***************************************************************************)
(* callback_get                                                            *)
(***************************************************************************)
Hosts == {"h"}
CorrServices == {"s1", "s2"}

\* The OIDs of the accumulator, as its keys spell them (with a leading dot),
\* and the owner of each entry.
EntryKey ==
    [o \in {".1.10.1", ".1.16.1"} |->
        IF o = ".1.10.1"
        THEN [host |-> "h", service |-> "s1", ds_name |-> "in",  oid_type |-> "ds_oid"]
        ELSE [host |-> "h", service |-> "s2", ds_name |-> "out", oid_type |-> "ds_oid"]]

\* What a response can carry: oid.prettyPrint() has no leading dot; the last
\* OID is in no accumulator. A value is an SNMP object, never None.
BindOids == {"1.10.1", "1.16.1", "1.3.0"}
BindValues == {1, 2}
Binds == BindOids \X BindValues
\* The lengths of the varBinds of one call: an error response carries none.
BatchLengths == 0..2
Batches == UNION {[1..n -> Binds] : n \in BatchLengths}

\* line 87 and line 89: ".".join(("ds", ds_name, oid_type + "_value_last"))
last_value_key(key) == "ds" \o "." \o key.ds_name \o "." \o key.oid_type \o "_value_last"
value_key(key) == "ds" \o "." \o key.ds_name \o "." \o key.oid_type \o "_value"

\* The value every datasource holds when the poll starts.
InitialValue == 0

\* The accumulator and the service results as the poller hands them to the
\* first request: nothing received, value_last the value the record holds.
CorrInit ==
    /\ results = [o \in DOMAIN EntryKey |->
                     [value |-> None, check_time |-> None,
                      value_last |-> InitialValue, key |-> EntryKey[o]]]
    /\ service_results =
          [s \in CorrServices |->
              [host |-> "h", service |-> s, state |-> "sent",
               db_data |->
                  [ds |-> [d \in {"in", "out"} |->
                              [k \in {value_key([ds_name |-> d, oid_type |-> "ds_oid"]),
                                      last_value_key([ds_name |-> d, oid_type |-> "ds_oid"])}
                                 |-> IF k = value_key([ds_name |-> d, oid_type |-> "ds_oid"])
                                     THEN InitialValue ELSE None]],
                   check_time |-> 0,
                   last_check_time |-> None]]]
    /\ result_queue = <<>>
    /\ now = 1
    /\ last_cb = [called |-> FALSE]

\* The completion test passing as soon as one entry holds a value.
Complete_AnyValue(res) == \E o \in DOMAIN res : res[o].value # None

\* "if not any([... oid['value'] is None])" (line 77)
Complete(res) == \A o \in DOMAIN res : res[o].value # None

\* lines 70-74: the accumulator after the loop over varBinds.
RECURSIVE StoreBinds(_, _, _)
StoreBinds(res, binds, t) ==
    IF binds = <<>> THEN res
    ELSE LET oid == "." \o Head(binds)[1]
             r   == IF oid \in DOMAIN res
                    THEN [res EXCEPT ![oid].value = Head(binds)[2],
                                     ![oid].check_time = t]
                    ELSE res
         IN  StoreBinds(r, Tail(binds), t)

\* The accumulator after a call that first empties an accumulator found full.
AccumulatorAfter_RestartWhenFull(res, binds, t) ==
    StoreBinds(IF Complete(res)
               THEN [o \in DOMAIN res |-> [res[o] EXCEPT !.value = None]]
               ELSE res,
               binds, t)

\* lines 67-74: cbCtx[0] after the call; only the loop over varBinds writes it.
AccumulatorAfter(res, binds, t) == StoreBinds(res, binds, t)

\* Every entry of the accumulator, whoever owns it.
tmp_results_All(res, sr) == DOMAIN res

\* line 81: the OIDs of the entries of the triggering service.
tmp_results(res, sr) ==
    {o \in DOMAIN res : /\ res[o].key.host = sr.host
                        /\ res[o].key.service = sr.service}

\* lines 82-93: the 'ds' mapping after the loop over tmp_results. No two
\* entries of the model share a datasource, so the order does not matter.
ProjectDs(ds, res, owned) ==
    [d \in DOMAIN ds |->
        [k \in DOMAIN ds[d] \cup
               UNION {{last_value_key(res[o].key), value_key(res[o].key)} :
                         o \in {x \in owned : res[x].key.ds_name = d}} |->
            IF \E o \in owned : res[o].key.ds_name = d /\ k = value_key(res[o].key)
            THEN LET o == CHOOSE x \in owned :
                             res[x].key.ds_name = d /\ k = value_key(res[x].key)
                 IN  res[o].value
            ELSE IF \E o \in owned :
                       res[o].key.ds_name = d /\ k = last_value_key(res[o].key)
            THEN LET o == CHOOSE x \in owned :
                             res[x].key.ds_name = d /\ k = last_value_key(res[x].key)
                 IN  res[o].value_last
            ELSE ds[d][k]]]

\* lines 80-99: the service result written on completion.
ServiceResultOnCompletion(sr, res, t) ==
    [sr EXCEPT !.db_data.ds = ProjectDs(sr.db_data.ds, res, tmp_results(res, sr)),
               !.db_data.last_check_time = sr.db_data.check_time,
               !.db_data.check_time = t,
               !.state = "received"]

\* lines 63-103: one call, with cbCtx = (results, service_results[trigger],
\* result_queue).
callback_get(varBinds, trigger) ==
    LET res == AccumulatorAfter(results, varBinds, now)
    IN  /\ now <= MaxCallbacks
        /\ results' = res
        /\ IF Complete(res)
           THEN /\ result_queue' = Append(result_queue, "results")
                /\ service_results' =
                      [service_results EXCEPT
                          ![trigger] = ServiceResultOnCompletion(@, res, now)]
           ELSE UNCHANGED <<result_queue, service_results>>
        /\ now' = now + 1
        /\ last_cb' = [called |-> TRUE, trigger |-> trigger, varBinds |-> varBinds,
                       results |-> results, service_results |-> service_results,
                       result_queue |-> result_queue]
        /\ UNCHANGED nonCorrVars

CallbackGet == \E b \in Batches, s \in CorrServices : callback_get(b, s)

CorrNext == CallbackGet

(***************************************************************************)
(* callback_mapping_next                                                   *)
(***************************************************************************)
\* str.startswith
startswith(s, prefix) ==
    /\ Len(prefix) <= Len(s)
    /\ SubSeq(s, 1, Len(prefix)) = prefix

\* str.replace: every occurrence of old, found left to right.
RECURSIVE replace(_, _, _)
replace(s, old, new) ==
    IF Len(s) < Len(old) THEN s
    ELSE IF SubSeq(s, 1, Len(old)) = old
         THEN new \o replace(SubSeq(s, Len(old) + 1, Len(s)), old, new)
         ELSE SubSeq(s, 1, 1) \o replace(SubSeq(s, 2, Len(s)), old, new)

\* all(result.values()) (line 125): result has the two keys 'data' and
\* 'finished'; a dict is true when it is not empty.
AllResultValues(result) == (DOMAIN result.data # {}) /\ result.finished

\* lines 110-129 over the (oid, instance_name) pairs of varBinds, in order.
\* oid is oid.prettyPrint(), without the leading dot. Gives the state left
\* in result and the value returned.
RECURSIVE MappingLoop(_, _, _)
MappingLoop(root, result, pairs) ==
    IF pairs = <<>> THEN [result |-> result, ret |-> TRUE]
    ELSE LET oid           == "." \o Head(pairs).oid
             instance_name == Head(pairs).value
         IN  IF ~startswith(oid, root)
             THEN [result |-> [result EXCEPT !.finished = TRUE], ret |-> FALSE]
             ELSE LET instance == replace(oid, root \o ".", "")
                      stored   == IF instance_name \in DOMAIN result.data
                                  THEN [result EXCEPT !.data[instance_name] = instance]
                                  ELSE result
                  IN  IF AllResultValues(stored)
                      THEN [result |-> [stored EXCEPT !.finished = TRUE], ret |-> FALSE]
                      ELSE MappingLoop(root, stored, Tail(pairs))

\* varBinds is a list of table rows, each a list of pairs.
RECURSIVE Flatten(_)
Flatten(rows) == IF rows = <<>> THEN <<>> ELSE Head(rows) \o Flatten(Tail(rows))

\* The callback starting every call from finished = False.
callback_mapping_next_ClearsFinished(root, result, varBinds) ==
    MappingLoop(root, [result EXCEPT !.finished = FALSE], Flatten(varBinds))

callback_mapping_next(root, result, varBinds) ==
    MappingLoop(root, result, Flatten(varBinds))

\* The table of the walks: ifDescr, and the names its rows can carry.
IfDescr == "1.3.6.1.2.1.2.2.1.2"
RowNames == {"eth0", "eth1", "lo"}
\* The names a walk can look for; wlan0 names no row.
WantedNames == {"eth0", "eth1", "wlan0"}

\* A table of n rows, indexed 1..n.
Index == [i \in 1..9 |-> SubSeq("123456789", i, i)]
TableOfNames(names) ==
    [i \in 1..Len(names) |-> [oid |-> IfDescr \o "." \o Index[i], value |-> names[i]]]
Tables == {TableOfNames(names) : names \in UNION {[1..n -> RowNames] : n \in 0..MaxRows}}

\* What follows the table in the agent's MIB, in GetNext order: the next
\* column, or, on an agent that has no column 3 to 19, column 20 and then
\* column 30.
AfterTable ==
    { << [oid |-> "1.3.6.1.2.1.2.2.1.3.1", value |-> "6"] >>,
      << [oid |-> "1.3.6.1.2.1.2.2.1.20.1", value |-> "0"],
         [oid |-> "1.3.6.1.2.1.2.2.1.30.1", value |-> "0"] >> }

NoRow == [oid |-> "", value |-> ""]

\* The walk as the poller starts it: no name resolved, not finished.
MapInit ==
    /\ mapping_oid = "." \o IfDescr
    /\ \E wanted \in SUBSET WantedNames :
          map_result = [data |-> [n \in wanted |-> NoneStr], finished |-> FALSE]
    /\ \E t \in Tables, after \in AfterTable :
          /\ agent_rows = t \o after
          /\ table_rows = Len(t)
    /\ rounds = 0
    /\ walk_ret = TRUE
    /\ last_row = NoRow
    /\ last_call = [called |-> FALSE]

\* No walk under way: the state of the walker in the specifications of the
\* other components.
MapIdle ==
    /\ mapping_oid = "." \o IfDescr
    /\ map_result = [data |-> [n \in {} |-> NoneStr], finished |-> FALSE]
    /\ agent_rows = <<>>
    /\ table_rows = 0
    /\ rounds = 0
    /\ walk_ret = TRUE
    /\ last_row = NoRow
    /\ last_call = [called |-> FALSE]

\* One GetNext round: the transport asks again while the callback returned
\* True, the agent answers with its next row, and the callback runs on it.
WalkRound ==
    /\ walk_ret
    /\ rounds < Len(agent_rows)
    /\ LET row == agent_rows[rounds + 1]
           out == callback_mapping_next(mapping_oid, map_result, << <<row>> >>)
       IN  /\ map_result' = out.result
           /\ walk_ret' = out.ret
           /\ last_row' = row
           /\ last_call' = [called |-> TRUE, result |-> map_result,
                            varBinds |-> << <<row>> >>]
    /\ rounds' = rounds + 1
    /\ UNCHANGED <<mapping_oid, agent_rows, table_rows>>
    /\ UNCHANGED nonMapVars

MapNext == WalkRound

\* A mapping state handed to the callback with no agent behind it: the
\* responses come from DeliveredBatches.
MapStart ==
    /\ mapping_oid = "." \o IfDescr
    /\ \E wanted \in SUBSET WantedNames :
          map_result = [data |-> [n \in wanted |-> NoneStr], finished |-> FALSE]
    /\ agent_rows = <<>>
    /\ table_rows = 0
    /\ rounds = 0
    /\ walk_ret = TRUE
    /\ last_row = NoRow
    /\ last_call = [called |-> FALSE]

\* The rows a response can carry: rows of the table (two of them with the
\* same name) and the rows of AfterTable.
DeliveredRows ==
    { [oid |-> IfDescr \o ".1", value |-> "eth0"],
      [oid |-> IfDescr \o ".2", value |-> "eth1"],
      [oid |-> IfDescr \o ".3", value |-> "eth0"],
      [oid |-> IfDescr \o ".4", value |-> "lo"],
      [oid |-> "1.3.6.1.2.1.2.2.1.3.1", value |-> "6"],
      [oid |-> "1.3.6.1.2.1.2.2.1.20.1", value |-> "0"] }

\* varBinds of one call: one or two table rows of one pair each.
DeliveredBatches ==
    UNION {[1..n -> {<<r>> : r \in DeliveredRows}] : n \in 1..2}

\* One call of the callback on the mapping state, whatever the earlier calls
\* returned: the state is shared by every response that carries it as
\* cbCtx (a late or repeated response, a second request).
Deliver ==
    /\ rounds < MaxDeliveries
    /\ \E varBinds \in DeliveredBatches :
          LET out == callback_mapping_next(mapping_oid, map_result, varBinds)
          IN  /\ map_result' = out.result
              /\ walk_ret' = out.ret
              /\ last_row' = varBinds[Len(varBinds)][1]
              /\ last_call' = [called |-> TRUE, result |-> map_result,
                               varBinds |-> varBinds]
    /\ rounds' = rounds + 1
    /\ UNCHANGED <<mapping_oid, agent_rows, table_rows>>
    /\ UNCHANGED nonMapVars

MapDeliver == Deliver

(***************************************************************************)
(* DBClient                                                                *)
(***************************************************************************)
\* A Python value of a service record: an int, or a dict of such values.
L(n) == [tag |-> "leaf", v |-> n]
D(f) == [tag |-> "dict", d |-> f]
NoneRec == [tag |-> "none"]
EmptyDict == D([k \in {} |-> NoneRec])

\* str() of the integers of the model.
str(n) ==
    CASE n = 1 -> "1" [] n = 2 -> "2" [] n = 5 -> "5" [] n = 10 -> "10"

\* line 70: ":".join((str(part1), str(part2))), on parts that are strings.
build_key(part1, part2) == part1 \o ":" \o part2

CacheHosts == {"h"}
\* Service names; the second one reads like a check interval.
Services == {"s", "5"}
Intervals == {5, 10}
ServiceKeys == {build_key(h, s) : h \in CacheHosts, s \in Services}
IntervalKeys == {build_key(h, str(ci)) : h \in CacheHosts, ci \in Intervals}
Keys == ServiceKeys \cup IntervalKeys

\* The values a Redis key holds: nothing, a string, or a set.
NoValue == [kind |-> "none"]
StringValue(text) == [kind |-> "string", text |-> text]
SetValue(members) == [kind |-> "set", members |-> members]

\* The dicts of the model, by nesting level:
\*   {'check_interval': int, 'ds': {'x': .., 'y': ..}} with 'x'/'y' an int
\*   or {'v': int}; every key is optional.
DictsOver(keys, vals) == {D(f) : f \in UNION {[K -> vals] : K \in SUBSET keys}}
DsEntries == DictsOver({"v"}, {L(1), L(2)}) \cup {L(1)}
DsDicts == DictsOver({"x", "y"}, DsEntries)
Records ==
    {r \in DictsOver({"check_interval", "ds"}, {L(5), L(10)} \cup DsDicts) :
        /\ "check_interval" \in DOMAIN r.d => r.d["check_interval"].tag = "leaf"
        /\ "ds" \in DOMAIN r.d => r.d["ds"].tag = "dict"}

\* The order in which the keys of a dict are written out.
KeyOrder == <<"check_interval", "ds", "v", "x", "y">>

\* str(dict), as db_conn.set stores it (line 138): "{'k': v, ...}".
RECURSIVE Repr(_)
RECURSIVE ReprItems(_, _, _)
ReprItems(f, keys, first) ==
    IF keys = <<>> THEN ""
    ELSE IF Head(keys) \in DOMAIN f
         THEN (IF first THEN "" ELSE ", ")
              \o "'" \o Head(keys) \o "': " \o Repr(f[Head(keys)])
              \o ReprItems(f, Tail(keys), FALSE)
         ELSE ReprItems(f, Tail(keys), first)
Repr(x) ==
    IF x.tag = "leaf" THEN str(x.v)
    ELSE "{" \o ReprItems(x.d, KeyOrder, TRUE) \o "}"

\* ast.literal_eval (lines 129, 166): the dict that the text spells.
Parsed == [text \in {Repr(r) : r \in Records} |->
              CHOOSE r \in Records : Repr(r) = text]
LiteralEval(text) == Parsed[text]

\* utils.merge_dicts: keys of new override, keys only in old are kept,
\* recursively where both hold a dict.
RECURSIVE merge(_, _)
merge(old, new) ==
    D([k \in DOMAIN old.d \cup DOMAIN new.d |->
          IF k \notin DOMAIN new.d THEN old.d[k]
          ELSE IF k \notin DOMAIN old.d THEN new.d[k]
          ELSE IF old.d[k].tag = "dict" /\ new.d[k].tag = "dict"
               THEN merge(old.d[k], new.d[k])
               ELSE new.d[k]])

\* utils.merge_dicts on what update_service passes: old_dict is None when
\* the key holds nothing; an empty result is given back as None.
merge_dicts(old_dict, new_dict) ==
    LET m == merge(IF old_dict = NoneRec THEN EmptyDict ELSE old_dict, new_dict)
    IN  IF m = EmptyDict THEN NoneRec ELSE m

\* db_conn.get(key): "WRONGTYPE" stands for the ResponseError Redis answers
\* when the key holds a set.
RedisGet(store, key) ==
    CASE store[key].kind = "string" -> [err |-> "ok", val |-> store[key].text]
      [] store[key].kind = "none"   -> [err |-> "ok", val |-> NoneStr]
      [] OTHER                      -> [err |-> "WRONGTYPE", val |-> NoneStr]

\* db_conn.sadd(key, member)
RedisSadd(store, key, member) ==
    CASE store[key].kind = "set" ->
            [err |-> "ok",
             store |-> [store EXCEPT ![key] = SetValue(@.members \cup {member})]]
      [] store[key].kind = "none" ->
            [err |-> "ok", store |-> [store EXCEPT ![key] = SetValue({member})]]
      [] OTHER -> [err |-> "WRONGTYPE", store |-> store]

\* db_conn.smembers(key)
RedisSmembers(store, key) ==
    CASE store[key].kind = "set"  -> [err |-> "ok", val |-> store[key].members]
      [] store[key].kind = "none" -> [err |-> "ok", val |-> {}]
      [] OTHER                    -> [err |-> "WRONGTYPE", val |-> {}]

\* The data of the calls.
ScenA == D([check_interval |-> L(5), ds |-> D([x |-> D([v |-> L(1)])])])
ScenB == D([ds |-> D([y |-> D([v |-> L(2)])])])
ScenAB == D([check_interval |-> L(5),
             ds |-> D([x |-> D([v |-> L(1)]), y |-> D([v |-> L(2)])])])
InputData ==
    { ScenA, ScenB,
      D([check_interval |-> L(10)]),
      D([check_interval |-> L(5)]),
      D([ds |-> D([x |-> D([v |-> L(2)])])]),
      D([ds |-> D([x |-> L(1)])]),
      EmptyDict }

CacheInit ==
    /\ db = [k \in Keys |-> NoValue]
    /\ written = [k \in ServiceKeys |-> {}]
    /\ scenario = "empty cache"
    /\ only_init = TRUE
    /\ last_get = [called |-> FALSE]

\* update_service without the merge: the new data is stored as it came.
NewRecord_NoMerge(old_dict, data) == data

\* line 131: data = merge_dicts(old_dict, data)
NewRecord(old_dict, data) == merge_dicts(old_dict, data)

\* lines 126-146 on a store: the store left and how the call ended,
\*   "ok"        returned (None, False)
\*   "error"     returned (None, True)
\*   "exception" an exception left the method (the get of line 127 is
\*               outside every try)
\* fail names the Redis command, if any, that the connection fails.
UpdateService(store, host, service, data, fail) ==
    LET key == build_key(host, service)
        got == RedisGet(store, key)
    IN  IF fail = "get" \/ got.err # "ok"
        THEN [store |-> store, ret |-> "exception"]
        ELSE LET old_dict == IF got.val # NoneStr THEN LiteralEval(got.val)
                                                  ELSE NoneRec
                 merged   == NewRecord(old_dict, data)
             IN  IF merged = NoneRec
                 THEN [store |-> store, ret |-> "error"]
                 ELSE IF fail = "set"
                 THEN [store |-> store, ret |-> "error"]
                 ELSE [store |-> [store EXCEPT ![key] = StringValue(Repr(merged))],
                       ret |-> "ok"]

\* lines 99-116 on a store. The return value of update_service is dropped
\* (the method returns None), so "ok" and "error" here tell how the inner
\* call ended.
UpdateServiceInit(store, host, service, data, fail) ==
    IF "check_interval" \notin DOMAIN data.d
    THEN [store |-> store, ret |-> "exception"]          \* KeyError, line 102
    ELSE LET key_ci == build_key(host, str(data.d["check_interval"].v))
             added  == RedisSadd(store, key_ci, service)
         IN  IF fail = "sadd" \/ added.err # "ok"
             THEN [store |-> store, ret |-> "error"]     \* lines 107-112
             ELSE UpdateService(added.store, host, service, data, fail)

\* lines 150-166: the decoded record, or NoneRec for None.
get_service(store, host, service) ==
    LET got == RedisGet(store, build_key(host, service))
    IN  IF got.err # "ok" \/ got.val = NoneStr THEN NoneRec
        ELSE LiteralEval(got.val)

\* The connection failing the get of one member of the index.
FailGet(service) == "get " \o service

\* get_services whose loop ends at the first member that has no record.
RECURSIVE GetServicesLoop_StopAtMiss(_, _, _, _)
GetServicesLoop_StopAtMiss(store, host, servicelist, fail) ==
    IF servicelist = <<>> THEN <<>>
    ELSE LET service == Head(servicelist)
             got     == RedisGet(store, build_key(host, service))
         IN  IF fail = FailGet(service) \/ got.err # "ok" \/ got.val = NoneStr
             THEN <<>>
             ELSE <<LiteralEval(got.val)>>
                  \o GetServicesLoop_StopAtMiss(store, host, Tail(servicelist), fail)

\* lines 189-201: dict_list after the loop over servicelist, taken in the
\* order the set yields its members.
RECURSIVE GetServicesLoop(_, _, _, _)
GetServicesLoop(store, host, servicelist, fail) ==
    IF servicelist = <<>> THEN <<>>
    ELSE LET service == Head(servicelist)
             got     == RedisGet(store, build_key(host, service))
             rest    == GetServicesLoop(store, host, Tail(servicelist), fail)
         IN  IF fail = FailGet(service) \/ got.err # "ok"
             THEN rest                                   \* lines 198-201
             ELSE IF got.val = NoneStr
             THEN rest                                   \* lines 194-196
             ELSE <<LiteralEval(got.val)>> \o rest       \* line 197

\* The orders in which a set can yield its members.
Orders(S) ==
    {f \in [1..Cardinality(S) -> S] : \A i, j \in DOMAIN f : f[i] = f[j] => i = j}

\* lines 174-203: None (ret "None") or the list of dicts (ret "list").
GetServices(store, host, check_interval, order, fail) ==
    LET key_ci == build_key(host, str(check_interval))
        got    == RedisSmembers(store, key_ci)
    IN  IF fail = "smembers" \/ got.err # "ok"
        THEN [ret |-> "None", list |-> <<>>]             \* lines 179-183
        ELSE [ret |-> "list",
              list |-> GetServicesLoop(store, host, order, fail)]

\* The value a dict holds at a path of keys; NoneRec when it holds none.
RECURSIVE Lookup(_, _)
Lookup(x, path) ==
    IF path = <<>> THEN x
    ELSE IF x.tag # "dict" THEN NoneRec
    ELSE IF Head(path) \notin DOMAIN x.d THEN NoneRec
    ELSE Lookup(x.d[Head(path)], Tail(path))

\* The (path, int) pairs of the leaves of a dict.
RECURSIVE LeafWrites(_, _)
LeafWrites(x, prefix) ==
    IF x.tag = "leaf" THEN {<<prefix, x.v>>}
    ELSE UNION {LeafWrites(x.d[k], Append(prefix, k)) : k \in DOMAIN x.d}

\* A later call with this data replaces what an earlier call wrote at path:
\* the data holds an int at the path or above it, or a dict at the path.
Overrides(data, path) ==
    \/ \E i \in 1..Len(path) : Lookup(data, SubSeq(path, 1, i)).tag = "leaf"
    \/ Lookup(data, path).tag = "dict"

WrittenAfter(w, data) ==
    {pv \in w : ~Overrides(data, pv[1])} \cup LeafWrites(data, <<>>)

\* Scenarios 2 and 3: on an empty cache, update_service("h", "s", ScenA) and
\* then update_service("h", "s", ScenB), both successful, nothing else.
ScenarioAfter(host, service, data, ret) ==
    IF host = "h" /\ service = "s" /\ ret = "ok"
    THEN CASE scenario = "empty cache" /\ data = ScenA -> "scenario 2"
           [] scenario = "scenario 2" /\ data = ScenB  -> "scenario 3"
           [] OTHER -> "left"
    ELSE "left"

update_service(host, service, data, fail) ==
    LET out == UpdateService(db, host, service, data, fail)
        key == build_key(host, service)
    IN  /\ db' = out.store
        /\ written' = IF out.ret = "ok"
                      THEN [written EXCEPT ![key] = WrittenAfter(@, data)]
                      ELSE written
        /\ scenario' = ScenarioAfter(host, service, data, out.ret)
        /\ only_init' = FALSE
        /\ last_get' = [called |-> FALSE]
        /\ UNCHANGED nonCacheVars

update_service_init(host, service, data, fail) ==
    LET out == UpdateServiceInit(db, host, service, data, fail)
        key == build_key(host, service)
    IN  /\ db' = out.store
        /\ written' = IF out.ret = "ok"
                      THEN [written EXCEPT ![key] = WrittenAfter(@, data)]
                      ELSE written
        /\ scenario' = "left"
        /\ only_init' = (only_init /\ out.ret = "ok")
        /\ last_get' = [called |-> FALSE]
        /\ UNCHANGED nonCacheVars

UpdateServiceCall ==
    \E h \in CacheHosts, s \in Services, data \in InputData,
       fail \in {"none", "get", "set"} :
        update_service(h, s, data, fail)

UpdateServiceInitCall ==
    \E h \in CacheHosts, s \in Services, data \in InputData,
       fail \in {"none", "sadd", "get", "set"} :
        update_service_init(h, s, data, fail)

\* One client, one call at a time.
CacheNext == UpdateServiceCall \/ UpdateServiceInitCall

get_services(host, check_interval, fail) ==
    \E order \in Orders(RedisSmembers(db, build_key(host, str(check_interval))).val) :
        LET out == GetServices(db, host, check_interval, order, fail)
        IN  /\ last_get' = [called |-> TRUE, host |-> host,
                            check_interval |-> check_interval, fail |-> fail,
                            ret |-> out.ret, list |-> out.list]
            /\ UNCHANGED <<db, written, scenario, only_init>>
            /\ UNCHANGED nonCacheVars

GetServicesCall ==
    \E h \in CacheHosts, ci \in Intervals,
       fail \in {"none", "smembers"} \cup {FailGet(s) : s \in Services} :
        get_services(h, ci, fail)

\* Two clients of the same store, each making update_service calls on
\* ("h", "s") with keys the other never writes.
Writers == {"w1", "w2"}
WriterData ==
    [w \in Writers |->
        IF w = "w1"
        THEN {ScenA, D([check_interval |-> L(10)]), D([ds |-> D([x |-> D([v |-> L(2)])])])}
        ELSE {ScenB, D([ds |-> D([y |-> D([v |-> L(1)])])])}]

RaceInit ==
    /\ writers = [w \in Writers |->
                     [pc |-> "idle", data |-> EmptyDict, old_dict |-> NoneRec]]
    /\ started = 0
    /\ raced = FALSE

\* lines 126-129: the first store step of a call, the read of the old record.
update_service_read(w, data) ==
    LET got == RedisGet(db, build_key("h", "s"))
    IN  /\ writers[w].pc = "idle"
        /\ started < MaxWrites
        /\ started' = started + 1
        /\ raced' = (raced \/ \E o \in Writers \ {w} : writers[o].pc = "read")
        /\ writers' =
              IF got.err # "ok"
              THEN writers                               \* the get raised
              ELSE [writers EXCEPT ![w] =
                       [pc |-> "read", data |-> data,
                        old_dict |-> IF got.val # NoneStr THEN LiteralEval(got.val)
                                                          ELSE NoneRec]]
        /\ UNCHANGED cacheVars
        /\ UNCHANGED nonStoreVars

\* lines 131-146: the merge with the old_dict read earlier and the second
\* store step, the write of the merged record.
update_service_write(w) ==
    LET key    == build_key("h", "s")
        merged == NewRecord(writers[w].old_dict, writers[w].data)
    IN  /\ writers[w].pc = "read"
        /\ writers' = [writers EXCEPT ![w] =
                          [pc |-> "idle", data |-> EmptyDict, old_dict |-> NoneRec]]
        /\ IF merged = NoneRec
           THEN UNCHANGED <<db, written>>                \* lines 133-134
           ELSE /\ db' = [db EXCEPT ![key] = StringValue(Repr(merged))]
                /\ written' = [written EXCEPT
                                  ![key] = WrittenAfter(@, writers[w].data)]
        /\ scenario' = "left"
        /\ only_init' = FALSE
        /\ last_get' = [called |-> FALSE]
        /\ UNCHANGED <<started, raced>>
        /\ UNCHANGED nonStoreVars

UpdateServiceRead == \E w \in Writers : \E data \in WriterData[w] : update_service_read(w, data)

UpdateServiceWrite == \E w \in Writers : update_service_write(w)

RaceNext == UpdateServiceRead \/ UpdateServiceWrite

\* The writes and the reads of one client.
CacheReadNext == CacheNext \/ GetServicesCall

(***************************************************************************)
(* Specifications                                                          *)
(***************************************************************************)
Init == WorkerInit /\ CorrInit /\ MapIdle /\ CacheInit /\ RaceInit

\* The worker with any task and with stop_worker().
Next == Enqueue \/ Start \/ WorkerStep \/ stop_worker

Spec == Init /\ [][Next]_vars /\ WF_vars(Start) /\ WF_vars(WorkerStep)

\* A running worker fed well-formed tasks only.
NextWellFormed == EnqueueWellFormed \/ Start \/ WorkerStep

SpecWellFormed ==
    Init /\ [][NextWellFormed]_vars /\ WF_vars(Start) /\ WF_vars(WorkerStep)

\* callback_get calls on one accumulator, in any order and with any content.
SpecCorrelator == Init /\ [][CorrNext]_vars

\* The cache store under the calls of a single writer.
SpecCache == Init /\ [][CacheNext]_vars

\* The cache store under the writes and the get_services calls of one client.
SpecCacheRead == Init /\ [][CacheReadNext]_vars

\* Two writers whose update_service calls interleave at their store steps.
SpecRace == Init /\ [][RaceNext]_vars

\* Walks of a table by successive GetNext rounds.
InitWalk == WorkerInit /\ CorrInit /\ MapInit /\ CacheInit /\ RaceInit

SpecWalk == InitWalk /\ [][MapNext]_vars

\* Calls of callback_mapping_next on one mapping state, in any order.
InitCallbacks == WorkerInit /\ CorrInit /\ MapStart /\ CacheInit /\ RaceInit

SpecCallbacks == InitCallbacks /\ [][MapDeliver]_vars

(***************************************************************************)
(* Claims about SNMPWorker                                                 *)
(***************************************************************************)
Crashed == pc \in {"KeyError", "TypeError"}

\* The number of calls made on the transport for task id i.
Submissions(i) == Cardinality({k \in 1..Len(submitted) : submitted[k].id = i})

\* The operation that matches a task kind, as the specification names them.
MatchingOp == [get |-> "asyncGetCmd", next |-> "asyncNextCmd", bulk |-> "asyncBulkCmd"]

C1_Safety ==
    /\ \A i \in 1..MaxTasks : Submissions(i) <= 1
    /\ \A k \in 1..Len(submitted) :
          /\ submitted[k].type \in DOMAIN MatchingOp
          /\ submitted[k].op = MatchingOp[submitted[k].type]
    \* a task that left the queue was submitted
    /\ \A i \in removed : Submissions(i) = 1

\* C1: with only well-formed tasks enqueued and a running worker, every task
\* is submitted to the transport operation matching its kind exactly once:
\* never twice, never to another operation, and every enqueued task is
\* eventually submitted.
C1_ExactlyOnce ==
    /\ []C1_Safety
    /\ \A i \in 1..MaxTasks : (nextId >= i) ~> (Submissions(i) = 1)

\* Every task was enqueued and submitted, through at least two operations.
C1_Witness ==
    /\ nextId = MaxTasks
    /\ mapping_queue = <<>>
    /\ Len(submitted) = MaxTasks
    /\ \E j, k \in 1..Len(submitted) : submitted[j].op # submitted[k].op

\* C2: a malformed task taken from the queue is dropped alone: it never ends
\* the worker loop, so the tasks behind it are still served.
C2_MalformedTaskDoesNotEndLoop == ~Crashed

\* C5: once stop_worker() has returned the worker begins no new cycle.
C5_NoCycleAfterStop == ~cycle_after_stop

\* C13: a task that left the queue was either submitted to the transport or
\* reported: none leaves with neither a transport call nor a report.
C13_DroppedTaskIsReported ==
    \A i \in removed : Submissions(i) >= 1 \/ i \in reported

\* C20: in a cycle runDispatcher() is called at most once, after the
\* transport calls of the cycle and before the sleep, and, when the cycle
\* reaches its sleep, it was called exactly if a task was submitted to the
\* transport in the cycle.
C20_DispatcherRunsIffSubmitted ==
    /\ dispatcher_runs <= 1
    /\ dispatcher_runs = 1 => pc \in {"sleep", "while", "done"}
    /\ pc = "sleep" => (dispatcher_runs = 1 <=> cycle_submitted > 0)

\* C21: a cycle takes at most 2 tasks from the queue, however many wait, and
\* the transport calls are made in the order the tasks were enqueued, within
\* a burst and over successive cycles. (task_prepared counts the tasks the
\* current cycle took; ids are given in enqueue order.)
C21_BurstOfTwoInFifoOrder ==
    /\ task_prepared <= 2
    /\ cycle_submitted <= 2
    /\ \A j, k \in 1..Len(submitted) :
          j < k => submitted[j].id < submitted[k].id
    /\ \A i \in removed : \A k \in 1..Len(mapping_queue) : i < mapping_queue[k].id

\* Three tasks were waiting: the cycle took and submitted the first two, in
\* order, and left the inner loop with the third still queued.
C21_Witness ==
    /\ pc = "dispatch"
    /\ task_prepared = 2
    /\ cycle_submitted = 2
    /\ submitted[Len(submitted) - 1].id = 1
    /\ submitted[Len(submitted)].id = 2
    /\ Len(mapping_queue) = 1
    /\ mapping_queue[1].id = 3

(***************************************************************************)
(* Claims about callback_get                                               *)
(***************************************************************************)
\* The OIDs of the accumulator that a batch carries.
Answered(binds) ==
    {o \in DOMAIN results : \E k \in 1..Len(binds) : "." \o binds[k][1] = o}

\* C3: nothing is on the result channel while an accumulator entry is null,
\* and over all the callbacks of one accumulator, those after its completion
\* included, the accumulator is emitted exactly once.
C3_EmittedExactlyOnce ==
    Len(result_queue) = IF Complete(results) THEN 1 ELSE 0

\* C6: once every entry of the accumulator holds a value, every later
\* callback_get call leaves it complete.
C6_CompleteStaysComplete == [][Complete(results) => Complete(results')]_vars

\* A call on an accumulator that was complete rewrote one of its entries.
C6_Witness ==
    /\ last_cb.called
    /\ Complete(last_cb.results)
    /\ Answered(last_cb.varBinds) # {}
    /\ results # last_cb.results
    /\ Complete(results)

\* C10: on completion, for each entry of the triggering service, _value_last
\* of the record becomes the _value the record held before the callback and
\* _value the value received; last_check_time becomes the previous
\* check_time and state becomes 'received'.
C10_ValueRotation ==
    (last_cb.called /\ Complete(results)) =>
        LET before == last_cb.service_results[last_cb.trigger]
            after  == service_results[last_cb.trigger]
        IN  /\ \A o \in tmp_results(results, after) :
                  LET key == results[o].key
                  IN  /\ after.db_data.ds[key.ds_name][last_value_key(key)]
                            = before.db_data.ds[key.ds_name][value_key(key)]
                      /\ after.db_data.ds[key.ds_name][value_key(key)]
                            = results[o].value
            /\ after.db_data.last_check_time = before.db_data.check_time
            /\ after.state = "received"

\* C12: an accumulator entry that holds a value is not written again: a
\* call that carries its OID once more leaves its value and its check_time
\* as they were.
C12_EntryWrittenOnce ==
    last_cb.called =>
        \A o \in DOMAIN results :
            last_cb.results[o].value # None =>
                /\ results[o].value = last_cb.results[o].value
                /\ results[o].check_time = last_cb.results[o].check_time

\* C17: a call that leaves an accumulator entry null puts nothing on the
\* result queue and leaves every service result as it was; so a service
\* result in state 'received' is only ever seen with a complete accumulator.
C17_IncompleteCallOnlyAccumulates ==
    /\ [][(\E o \in DOMAIN results' : results'[o].value = None)
            => UNCHANGED <<result_queue, service_results>>]_vars
    /\ [](\A s \in CorrServices :
            service_results[s].state = "received"
                => \A o \in DOMAIN results : results[o].value # None)

\* A call stored a value and left another entry null.
C17_Witness ==
    /\ last_cb.called
    /\ results # last_cb.results
    /\ \E o \in DOMAIN results : results[o].value = None
    /\ result_queue = <<>>

\* The entries of the accumulator that the service owns.
OwnedBy(s) ==
    {o \in DOMAIN results :
        results[o].key.host = "h" /\ results[o].key.service = s}

\* C18: on completion of an accumulator shared by two services only the
\* entries owned by the triggering service are projected: a datasource of
\* the triggering record that no owned entry names keeps its fields, and the
\* record of the other service is not modified.
C18_OnlyOwnEntriesProjected ==
    last_cb.called =>
        LET t      == last_cb.trigger
            before == last_cb.service_results
            ds     == service_results[t].db_data.ds
        IN  /\ \A s \in CorrServices \ {t} : service_results[s] = before[s]
            /\ DOMAIN ds = DOMAIN before[t].db_data.ds
            /\ \A d \in DOMAIN ds :
                  (\A o \in OwnedBy(t) : results[o].key.ds_name # d)
                      => ds[d] = before[t].db_data.ds[d]

\* A completion wrote the triggering record while the accumulator held, for
\* an entry of the other service, a value the triggering record does not show.
C18_Witness ==
    /\ last_cb.called
    /\ Complete(results)
    /\ service_results[last_cb.trigger] # last_cb.service_results[last_cb.trigger]
    /\ \E o \in DOMAIN results \ OwnedBy(last_cb.trigger) :
          LET key == results[o].key
          IN  service_results[last_cb.trigger].db_data.ds[key.ds_name][value_key(key)]
                 # results[o].value

(***************************************************************************)
(* Claims about callback_mapping_next                                      *)
(***************************************************************************)
\* The OID lies in the subtree of the table: the root is a prefix of it on
\* whole components.
InSubtree(oid, root) == startswith("." \o oid \o ".", root \o ".")

AllResolved == \A n \in DOMAIN map_result.data : map_result.data[n] # NoneStr

\* C7: after an in-table row that resolves the last outstanding wanted name
\* the state is finished and the callback returned False; after an in-table
\* row that leaves a wanted name unresolved, finished is false and the
\* callback returned True. (Stated for walks that want at least one name.)
C7_FinishedIffResolved ==
    (/\ rounds > 0
     /\ InSubtree(last_row.oid, mapping_oid)
     /\ DOMAIN map_result.data # {})
        => /\ map_result.finished = AllResolved
           /\ walk_ret = ~AllResolved

\* C8: a walk of a table of R rows is finished, and has signalled stop, once
\* R+1 rounds were answered, whatever names are wanted. (Stated for tables of
\* at least one row.)
C8_FinishedWithinRowsPlusOne ==
    (table_rows >= 1 /\ rounds >= table_rows + 1)
        => (map_result.finished /\ ~walk_ret)

\* The position in pairs of the first OID outside the subtree of the root;
\* 0 when every OID lies in it.
FirstOutside(pairs, root) ==
    IF \E k \in 1..Len(pairs) : ~InSubtree(pairs[k].oid, root)
    THEN CHOOSE k \in 1..Len(pairs) :
            /\ ~InSubtree(pairs[k].oid, root)
            /\ \A j \in 1..(k - 1) : InSubtree(pairs[j].oid, root)
    ELSE 0

\* C11: after a call whose varBinds hold a row outside the subtree of the
\* root, the state is finished, the callback returned False, and the mapping
\* is the one the rows before that row leave: neither that row nor a later
\* row of the batch recorded anything.
C11_OutsideRowStopsWalk ==
    last_call.called =>
        LET pairs == Flatten(last_call.varBinds)
            k     == FirstOutside(pairs, mapping_oid)
        IN  k > 0 =>
               /\ map_result.finished
               /\ ~walk_ret
               /\ map_result.data =
                     MappingLoop(mapping_oid, last_call.result,
                                 SubSeq(pairs, 1, k - 1)).result.data

\* C15: over any sequence of callback_mapping_next calls on one mapping
\* state, finished never goes from true back to false.
C15_FinishedNeverCleared ==
    [][map_result.finished => map_result'.finished]_vars

\* A call on a state that was finished processed a row of the table, wrote
\* the mapping, and left the state finished.
C15_Witness ==
    /\ last_call.called
    /\ last_call.result.finished
    /\ InSubtree(last_call.varBinds[1][1].oid, mapping_oid)
    /\ map_result.data # last_call.result.data
    /\ map_result.finished

\* C19: a call writes the mapping of a name only when the name is wanted and
\* still unresolved: the instance recorded for a name is not replaced by a
\* later row carrying the same name, and no name is added to the mapping.
C19_ResolvedNameKept ==
    last_call.called =>
        /\ DOMAIN map_result.data = DOMAIN last_call.result.data
        /\ \A n \in DOMAIN last_call.result.data :
              last_call.result.data[n] # NoneStr =>
                  map_result.data[n] = last_call.result.data[n]

(***************************************************************************)
(* Claims about DBClient                                                   *)
(***************************************************************************)
\* C4: with a single writer, after any sequence of successful update_service
\* calls on one (host, service), get_service returns a record in which every
\* key, at any depth, written by an earlier call and not overridden by a
\* later one still holds its value; and on an empty cache the data of
\* scenario 2 followed by the data of scenario 3 yields the record of
\* scenario 3.
C4_MergeKeepsWrittenKeys ==
    /\ \A h \in CacheHosts, s \in Services :
          \A pv \in written[build_key(h, s)] :
              LET rec == get_service(db, h, s)
              IN  rec # NoneRec /\ Lookup(rec, pv[1]) = L(pv[2])
    /\ scenario = "scenario 2" => get_service(db, "h", "s") = ScenA
    /\ scenario = "scenario 3" => get_service(db, "h", "s") = ScenAB

\* Scenario 3 happened: update_service has merged its data into the record
\* of scenario 2, whose keys are all still in force.
C4_Witness ==
    /\ scenario = "scenario 3"
    /\ written[build_key("h", "s")] =
          {<<(<<"check_interval">>), 5>>, <<(<<"ds", "x", "v">>), 1>>,
           <<(<<"ds", "y", "v">>), 2>>}

\* The services of the interval-index set at build_key(host, ci).
IndexMembers(h, ci) == RedisSmembers(db, build_key(h, str(ci))).val

\* A record exists at build_key(host, s) with this check_interval.
RecordWithInterval(h, s, ci) ==
    LET rec == get_service(db, h, s)
    IN  rec # NoneRec /\ Lookup(rec, <<"check_interval">>) = L(ci)

\* C9: in every reachable store, s is a member of the interval-index set at
\* build_key(host, ci) iff a record exists at build_key(host, s) whose
\* check_interval is ci. (Stated for the stores that successful
\* update_service_init calls alone build.)
C9_IndexMatchesRecords ==
    only_init =>
        \A h \in CacheHosts, s \in Services, ci \in Intervals :
            (s \in IndexMembers(h, ci)) <=> RecordWithInterval(h, s, ci)

\* The members of the index whose lookup get_services answers with a record:
\* a record is stored at build_key(host, member) and the get of the member
\* did not fail.
Answering(h, ci, fail) ==
    {m \in IndexMembers(h, ci) :
        get_service(db, h, m) # NoneRec /\ fail # FailGet(m)}

\* C14: when the interval index at build_key(host, check_interval) can be
\* read, get_services returns a list, and the list holds exactly the stored
\* records of the members whose lookup gives a record, each as many times as
\* members hold it; a member whose lookup misses is left out and changes
\* nothing else.
C14_GetServicesSkipsMisses ==
    (/\ last_get.called
     /\ last_get.fail # "smembers"
     /\ RedisSmembers(db, build_key(last_get.host, str(last_get.check_interval))).err = "ok")
        => LET h    == last_get.host
               ans  == Answering(h, last_get.check_interval, last_get.fail)
               list == last_get.list
           IN  /\ last_get.ret = "list"
               /\ Len(list) = Cardinality(ans)
               /\ \A m \in ans :
                     Cardinality({k \in 1..Len(list) : list[k] = get_service(db, h, m)})
                        = Cardinality({n \in ans :
                                          get_service(db, h, n) = get_service(db, h, m)})

\* The index held two members, one with a record and one without, and the
\* call returned the one record.
C14_Witness ==
    /\ last_get.called
    /\ last_get.fail = "none"
    /\ Cardinality(IndexMembers(last_get.host, last_get.check_interval)) = 2
    /\ Cardinality(Answering(last_get.host, last_get.check_interval, "none")) = 1
    /\ last_get.ret = "list"
    /\ Len(last_get.list) = 1

\* Every key written to ("h", "s") and not overridden since is in the record.
KeysInForceKept ==
    \A pv \in written[build_key("h", "s")] :
        LET rec == get_service(db, "h", "s")
        IN  rec # NoneRec /\ Lookup(rec, pv[1]) = L(pv[2])

\* C16: update_service reads the old record and writes the merged record in
\* two store steps. As long as the calls of the two writers, which write
\* disjoint keys, ran one after the other, the record holds the keys of both;
\* keys are lost only after a call read the record while another call was
\* between its read and its write.
C16_SerialWritersKeepKeys == ~raced => KeysInForceKept

\* Both writers read the empty record before either wrote: both calls are
\* over and the record lacks a key that one of them wrote.
C16_Witness ==
    /\ raced
    /\ started = 2
    /\ \A w \in Writers : writers[w].pc = "idle"
    /\ written[build_key("h", "s")] # {}
    /\ ~KeysInForceKept

====
